---------------------------- MODULE Spec2Model ----------------------------
(***************************************************************************)
(* A model of yupress (src/src/lib/yupress.ts): the endpoint wrapper that  *)
(* validates params/query/body against yup schemata, builds the lazy       *)
(* service context, runs the action and encodes its outcome on the         *)
(* express response.                                                       *)
(*                                                                         *)
(* JavaScript values are tagged records:                                   *)
(*   [t |-> "undefined"]            undefined                              *)
(*   [t |-> "null"]                 null                                   *)
(*   [t |-> "nan"]                  NaN                                    *)
(*   [t |-> "number",  n |-> i]     an (integer) number                    *)
(*   [t |-> "string",  s |-> str]   a string                               *)
(*   [t |-> "boolean", b |-> bool]  a boolean                              *)
(*   [t |-> "object",  o |-> f]     a plain object, f its own fields       *)
(*   [t |-> "promise", how, v]      a Promise that settles (how) with v    *)
(*   [t |-> "error",   message]     an Error instance (a fault)            *)
(* The own keys of an object are enumerated in the fixed order KeyOrder.   *)
(***************************************************************************)
EXTENDS Integers, Sequences, FiniteSets, TLC

(***************************************************************************)
(* Bounds of the model.                                                    *)
(***************************************************************************)
\* Request ids the model has room for.
MaxReqs == 2
\* Service reads one action makes at most.
MaxReads == 2

(***************************************************************************)
(* JavaScript values.                                                      *)
(***************************************************************************)
Undef == [t |-> "undefined"]
Null == [t |-> "null"]
NaN == [t |-> "nan"]
Num(n) == [t |-> "number", n |-> n]
Str(s) == [t |-> "string", s |-> s]
Bool(b) == [t |-> "boolean", b |-> b]
Obj(o) == [t |-> "object", o |-> o]
EmptyObj == Obj(<<>>)
Fault(m) == [t |-> "error", message |-> m]
Promise(how, v) == [t |-> "promise", how |-> how, v |-> v]

\* The order in which the own keys of the model's objects are enumerated.
KeyOrder ==
  << "type", "statusCode", "body", "options", "mimeType", "headers",
     "cookies", "id", "username", "password", "USERID", "Location",
     "params", "query", "req", "res" >>

\* Object.keys / forOwn: the own keys of o, in order.
Keys(o) == SelectSeq(KeyOrder, LAMBDA k : k \in DOMAIN o)

\* lodash get(value, key): undefined for a missing key or a non-object.
Get(v, k) ==
  IF v.t = "object" /\ k \in DOMAIN v.o THEN v.o[k] ELSE Undef

\* f extended (or overwritten) at key k.
Put(f, k, v) == [x \in DOMAIN f \cup {k} |-> IF x = k THEN v ELSE f[x]]

\* JavaScript truthiness, as || tests it.
Truthy(v) ==
  CASE v.t = "undefined" -> FALSE
    [] v.t = "null" -> FALSE
    [] v.t = "nan" -> FALSE
    [] v.t = "number" -> v.n # 0
    [] v.t = "string" -> v.s # ""
    [] v.t = "boolean" -> v.b
    [] OTHER -> TRUE

(***************************************************************************)
(* http-status-codes.                                                      *)
(***************************************************************************)
OK == 200
BAD_REQUEST == 400
UNAUTHORIZED == 401

(***************************************************************************)
(* JSON.stringify, on the values above.                                    *)
(***************************************************************************)
Quote(s) == "\"" \o s \o "\""

RECURSIVE JSONtext(_)
RECURSIVE JSONmembers(_, _, _)
\* The members of object o for the keys ks; a member whose value has no
\* JSON text (undefined) is left out.
JSONmembers(o, ks, first) ==
  IF ks = << >> THEN ""
  ELSE LET k == Head(ks)
           txt == JSONtext(o[k])
       IN IF txt.t = "undefined"
          THEN JSONmembers(o, Tail(ks), first)
          ELSE (IF first THEN "" ELSE ",") \o Quote(k) \o ":" \o txt.s
               \o JSONmembers(o, Tail(ks), FALSE)

JSONtext(v) ==
  CASE v.t = "undefined" -> Undef
    [] v.t = "null" -> Str("null")
    [] v.t = "nan" -> Str("null")
    [] v.t = "number" -> Str(ToString(v.n))
    [] v.t = "string" -> Str(Quote(v.s))
    [] v.t = "boolean" -> Str(IF v.b THEN "true" ELSE "false")
    [] v.t = "object" -> Str("{" \o JSONmembers(v.o, Keys(v.o), TRUE) \o "}")
    [] v.t = "error" -> Str("{}")
    [] v.t = "promise" -> Str("{}")

JSONstringify(v) == JSONtext(v)

(***************************************************************************)
(* yup schemata: validate and cast.                                        *)
(*   [kind |-> "number" | "string" | "boolean", required |-> BOOLEAN]      *)
(*   [kind |-> "object", required |-> BOOLEAN, fields |-> name -> schema]  *)
(* Numbers of the model are integers, so number().integer() never fails.   *)
(***************************************************************************)
NumberSchema(req) == [kind |-> "number", required |-> req]
StringSchema(req) == [kind |-> "string", required |-> req]
BooleanSchema(req) == [kind |-> "boolean", required |-> req]
ObjectSchema(fields) ==
  [kind |-> "object", required |-> FALSE, fields |-> fields]

\* schema.nullable() of a scalar schema, and whether a schema is nullable.
NullableSchema(schema) ==
  [kind |-> schema.kind, required |-> schema.required, nullable |-> TRUE]
Nullable(schema) == "nullable" \in DOMAIN schema

\* What unary + makes of the strings the model's requests carry.
Numerals == [s \in {"0", "1", "2", "3"} |->
               CASE s = "0" -> 0 [] s = "1" -> 1
                 [] s = "2" -> 2 [] s = "3" -> 3]

\* schema.isType(v) for a defined v.
IsType(schema, v) ==
  CASE v.t = "null" -> Nullable(schema)
    [] schema.kind = "number" -> v.t = "number"
    [] schema.kind = "string" -> v.t = "string"
    [] schema.kind = "boolean" -> v.t = "boolean"
    [] schema.kind = "object" -> v.t = "object"

\* The transform of a scalar schema.
CastScalar(schema, v) ==
  CASE v.t = "undefined" -> Undef
    [] v.t = "null" /\ (Nullable(schema) \/ schema.kind = "string") -> v
    [] schema.kind = "number" ->
         (CASE v.t = "number" -> v
            [] v.t = "string" ->
                 IF v.s \in DOMAIN Numerals THEN Num(Numerals[v.s]) ELSE NaN
            [] OTHER -> NaN)
    [] schema.kind = "string" ->
         (CASE v.t = "string" -> v
            [] v.t = "number" -> Str(ToString(v.n))
            [] v.t = "boolean" -> Str(IF v.b THEN "true" ELSE "false")
            [] v.t = "nan" -> Str("NaN")
            [] OTHER -> Str("[object Object]"))
    [] schema.kind = "boolean" ->
         (CASE v.t = "string" /\ v.s \in {"true", "false"} -> Bool(v.s = "true")
            [] OTHER -> v)

RECURSIVE CastFields(_, _, _, _)
\* object _cast, key by key: a declared field is cast by its schema and kept
\* unless undefined, an undeclared one is kept unless strip.
CastFields(schema, o, ks, strip) ==
  IF ks = << >> THEN << >>
  ELSE LET k == Head(ks)
           rest == CastFields(schema, o, Tail(ks), strip)
       IN IF k \in DOMAIN schema.fields
          THEN LET fv == CastScalar(schema.fields[k], o[k])
               IN IF fv.t = "undefined" THEN rest ELSE Put(rest, k, fv)
          ELSE IF strip THEN rest ELSE Put(rest, k, o[k])

\* schema._cast(v, {stripUnknown: strip}).
CastValue(schema, v, strip) ==
  IF schema.kind # "object" THEN CastScalar(schema, v)
  ELSE CASE v.t = "undefined" ->
              \* the default of an object schema: none without fields
              IF DOMAIN schema.fields = {} THEN Undef ELSE EmptyObj
         [] v.t = "object" -> Obj(CastFields(schema, v.o, Keys(v.o), strip))
         [] OTHER -> v


\* Whether every declared field that object o holds is of its schema's type.
FieldsTyped(schema, o) ==
  \A k \in DOMAIN o :
    k \in DOMAIN schema.fields => IsType(schema.fields[k], o[k])

\* schema.cast(v, {strict: true, stripUnknown: strip}): the cast value, or
\* the TypeError cast throws when a defined v does not come out as the
\* schema's type.
cast(schema, v, strip) ==
  LET c == CastValue(schema, v, strip)
      typed == /\ IsType(schema, c)
               /\ schema.kind = "object" => FieldsTyped(schema, c.o)
  IN IF v.t = "undefined" \/ typed
     THEN [ok |-> TRUE, value |-> c]
     ELSE [ok |-> FALSE,
           error |-> Fault("The value of field could not be cast to a value "
                           \o "that satisfies the schema type: \""
                           \o schema.kind \o "\".")]

\* The tests of a scalar schema on the cast value c at path: "" when they
\* pass, else the message of the first failing test.
ScalarMessage(schema, c, path) ==
  CASE c.t = "undefined" ->
         IF schema.required THEN path \o " is a required field" ELSE ""
    [] ~IsType(schema, c) ->
         path \o " must be a " \o schema.kind \o " type"
    [] OTHER -> ""

RECURSIVE FieldsMessage(_, _, _)
\* The first failing field of object o among the declared keys ks.
FieldsMessage(schema, o, ks) ==
  IF ks = << >> THEN ""
  ELSE LET k == Head(ks)
           m == ScalarMessage(schema.fields[k], Get(Obj(o), k), k)
       IN IF m # "" THEN m ELSE FieldsMessage(schema, o, Tail(ks))

\* schema.validate(v): the typed value, or the ValidationError's message.
validate(schema, v) ==
  LET c == CastValue(schema, v, FALSE)
      own == ScalarMessage(schema, c, "this")
      m == IF own # "" \/ schema.kind # "object" \/ c.t # "object" THEN own
           ELSE FieldsMessage(schema, c.o, Keys(schema.fields))
  IN IF m = "" THEN [ok |-> TRUE, value |-> c]
     ELSE [ok |-> FALSE, message |-> m]

(***************************************************************************)
(* The Result model.                                                       *)
(***************************************************************************)
\* A bug: only a Success counts as a Result.
ResultTypesMutant == {"YxpSuccess"}

ResultTypes == {"YxpSuccess", "YxpError"}

yxpError(statusCode, body) ==
  Obj([type |-> Str("YxpError"), statusCode |-> Num(statusCode), body |-> body])

\* yxpError(statusCode): the body left to its default.
yxpErrorNoBody(statusCode) == yxpError(statusCode, Str(""))

yxpSuccess(body, statusCode, options) ==
  Obj([type |-> Str("YxpSuccess"), body |-> body,
       statusCode |-> Num(statusCode), options |-> options])

\* A bug: a validation failure reported as a success.
paramErrorMutant(message) == yxpError(OK, message)

\* A message parameter left undefined takes yxpError's default body.
paramError(message) ==
  yxpError(BAD_REQUEST, IF message.t = "undefined" THEN Str("") ELSE message)

\* { mimeType, ...options }
text(results, mimeType, options) ==
  yxpSuccess(results, OK,
             Obj(Put(options.o, "mimeType",
                     IF "mimeType" \in DOMAIN options.o
                     THEN options.o["mimeType"] ELSE Str(mimeType))))

html(results, options) == text(results, "text/html", options)

\* A bug: JSON.stringify(results || {}).
jsonMutant(results, options) ==
  text(JSONstringify(IF Truthy(results) THEN results ELSE EmptyObj),
       "application/json", options)

json(results, options) ==
  text(JSONstringify(results), "application/json", options)

\* A bug: a Success is not taken for a Result.
isYxpResultsErrorOnly(results) == Get(results, "type") = Str("YxpError")

\* A bug: an Error instance is taken for a Result too.
isYxpResultsMutant(results) ==
  \/ results.t = "error"
  \/ Get(results, "type").t = "string" /\ Get(results, "type").s \in ResultTypes

isYxpResults(results) ==
  LET type == Get(results, "type")
  IN type.t = "string" /\ type.s \in ResultTypes

isYxpSuccess(results) == Get(results, "type") = Str("YxpSuccess")

(***************************************************************************)
(* The express response: the calls made on it, in order.                   *)
(***************************************************************************)
RECURSIVE ForOwn(_, _, _)
\* forOwn(m, (value, name) => res.<op>(name, value)): one call per own key.
ForOwn(op, m, ks) ==
  IF ks = << >> THEN << >>
  ELSE << [op |-> op, name |-> Head(ks), value |-> m[Head(ks)]] >>
       \o ForOwn(op, m, Tail(ks))

\* results.options.<which> || {}
OptionMap(results, which) ==
  LET m == Get(Get(results, "options"), which)
  IN IF m.t = "object" THEN m.o ELSE << >>

\* A bug: the status and the body are written before the cookies and the
\* headers are set.
sendResultsBodyFirst(results) ==
  << [op |-> "status", code |-> Get(results, "statusCode")],
     [op |-> "send", body |-> Get(results, "body")] >>
  \o (IF isYxpSuccess(results)
      THEN ForOwn("cookie", OptionMap(results, "cookies"),
                  Keys(OptionMap(results, "cookies")))
           \o ForOwn("header", OptionMap(results, "headers"),
                     Keys(OptionMap(results, "headers")))
      ELSE << >>)

\* A bug: the status is written before the cookies and the headers are set.
sendResultsStatusFirst(results) ==
  << [op |-> "status", code |-> Get(results, "statusCode")] >>
  \o (IF isYxpSuccess(results)
      THEN ForOwn("cookie", OptionMap(results, "cookies"),
                  Keys(OptionMap(results, "cookies")))
           \o ForOwn("header", OptionMap(results, "headers"),
                     Keys(OptionMap(results, "headers")))
      ELSE << >>)
  \o << [op |-> "send", body |-> Get(results, "body")] >>

\* A bug: the body is sent a second time.
sendResultsTwice(results) ==
  (IF isYxpSuccess(results)
   THEN ForOwn("cookie", OptionMap(results, "cookies"),
               Keys(OptionMap(results, "cookies")))
        \o ForOwn("header", OptionMap(results, "headers"),
                  Keys(OptionMap(results, "headers")))
   ELSE << >>)
  \o << [op |-> "status", code |-> Get(results, "statusCode")],
        [op |-> "send", body |-> Get(results, "body")],
        [op |-> "send", body |-> Get(results, "body")] >>

\* sendResults(res, results): the calls it appends to the response.
sendResults(results) ==
  (IF isYxpSuccess(results)
   THEN ForOwn("cookie", OptionMap(results, "cookies"),
               Keys(OptionMap(results, "cookies")))
        \o ForOwn("header", OptionMap(results, "headers"),
                  Keys(OptionMap(results, "headers")))
   ELSE << >>)
  \o << [op |-> "status", code |-> Get(results, "statusCode")],
        [op |-> "send", body |-> Get(results, "body")] >>

\* sendResults throws before its first call on the response when results is
\* tagged a Success and has no options: results.options.cookies is a
\* property read of undefined.
sendResultsThrows(results) ==
  isYxpSuccess(results) /\ Get(results, "options").t = "undefined"

\* The TypeError of that property read.
OptionsTypeError == Fault("Cannot read property 'cookies' of undefined")

\* The schema of an endpoint registered without a formatter.
BlankReturn == ObjectSchema(<< >>)


(***************************************************************************)
(* The endpoints, requests, services and actions the model draws from.     *)
(***************************************************************************)
\* No schema declared for a category (schemata.params undefined).
NoSchema == Undef

IdRequired == ObjectSchema([id |-> NumberSchema(TRUE)])

UserResponse ==
  ObjectSchema([id |-> NumberSchema(TRUE), username |-> StringSchema(TRUE)])

\* The schemata endpoints are registered with.
SchemataChoices ==
  { [params |-> NoSchema, query |-> NoSchema, body |-> NoSchema],
    [params |-> IdRequired, query |-> NoSchema, body |-> NoSchema],
    [params |-> NoSchema, query |-> IdRequired, body |-> NoSchema],
    [params |-> NoSchema, query |-> NoSchema, body |-> IdRequired],
    [params |-> IdRequired, query |-> IdRequired, body |-> NoSchema],
    [params |-> IdRequired, query |-> IdRequired, body |-> IdRequired],
    [params |-> NoSchema, query |-> NoSchema, body |-> NumberSchema(TRUE)] }

FormatterChoices == {BlankReturn, UserResponse}

\* The raw values a request carries in params and query, and in body.
RawValues == {Undef, Obj([id |-> Str("3")]), Obj([id |-> Str("three")])}
RawBodies == {Undef, Obj([id |-> Str("3")]), Num(0), Num(3)}

Requests == [params : RawValues, query : RawValues, body : RawBodies]

Categories == {"params", "query", "body"}

\* The services the Yupress instance is constructed with.
ServiceNames == {"user", "baz"}

User ==
  Obj([id |-> Num(1), username |-> Str("michael"),
       password |-> Str("swordfish")])

\* What a call of a service's factory does: it returns a value or throws
\* one (the demo's user throws a structured Error for a missing session).
FactoryOutcomes(name) ==
  IF name = "user"
  THEN { [kind |-> "return", v |-> User],
         [kind |-> "throw", v |-> yxpErrorNoBody(UNAUTHORIZED)] }
  ELSE { [kind |-> "return", v |-> Num(5)],
         [kind |-> "throw", v |-> Fault("store offline")] }

\* Structured Results an action returns or throws.
ResultValues ==
  { json(EmptyObj, Obj([cookies |-> Obj([USERID |-> Str("1")])])),
    html(Str("<p>hello</p>"),
         Obj([headers |-> Obj([Location |-> Str("/home")]),
              cookies |-> Obj([USERID |-> Str("1")])])),
    json(User, EmptyObj),
    yxpError(UNAUTHORIZED, Str("username/password not found")) }

\* Plain values an action returns: nothing, or an object whose declared
\* fields have the types of UserResponse (the action is typed
\* yup.InferType<R>) and that may carry more fields.
PlainValues ==
  { Undef,
    User,
    Obj([id |-> Num(3), username |-> Str("mary")]),
    Num(3) }

\* What an async action returns at once: a Promise of its outcome.
DeferredValues ==
  { Promise("resolve", Undef),
    Promise("resolve", User),
    Promise("resolve", html(Str("<p>hello</p>"), EmptyObj)),
    Promise("reject", yxpErrorNoBody(UNAUTHORIZED)) }

ReturnValues == PlainValues \cup ResultValues \cup DeferredValues

ThrowValues ==
  { yxpErrorNoBody(UNAUTHORIZED),
    yxpError(UNAUTHORIZED, Str("you must be logged in")),
    html(Str("<p>hello</p>"), EmptyObj),
    Fault("boom") }


(***************************************************************************)
(* State.                                                                  *)
(***************************************************************************)
VARIABLES
  endpoint,      \* the registration: [schemata, formatter]
  live,          \* the requests the endpoint function was called with
  pc,            \* where each request's call of the endpoint function is
  req,           \* each request's raw params, query and body
  args,          \* getSchemataArgs' locals params, query, body
  validations,   \* the categories whose shape's validate was called, in order
  schemataArgs,  \* what getSchemataArgs returned
  services,      \* the context object handed to the action
  cache,         \* the memoized service values of the context
  reads,         \* the service properties the action has read, in order
  factoryCalls,  \* the calls of service factories, in order
  invocations,   \* the contexts the action was invoked with
  casts,         \* the values formatter.cast was called with
  outcome,       \* how the action ended: what it returned or threw
  caught,        \* what was thrown inside the try, for the catch clause
  res,           \* the calls made on the response, in order
  escaped        \* what the endpoint function's promise rejected with

vars ==
  << endpoint, live, pc, req, args, validations, schemataArgs, services,
     cache, reads, factoryCalls, invocations, casts, outcome, caught, res,
     escaped >>

ReqIds == 1 .. MaxReqs

\* The express request and response objects of request r.
Handle(which, r) == [t |-> "handle", which |-> which, id |-> r]

NoOutcome == [kind |-> "none"]

\* The state of a request: before the endpoint function is called with it.
InitWith(ep, rs, reqOf) ==
  /\ endpoint = ep
  /\ live = rs
  /\ pc = [r \in ReqIds |-> IF r \in rs THEN "params" ELSE "idle"]
  /\ req = reqOf
  /\ args = [r \in ReqIds |->
               [params |-> Undef, query |-> Undef, body |-> Undef]]
  /\ validations = [r \in ReqIds |-> << >>]
  /\ schemataArgs = [r \in ReqIds |-> Undef]
  /\ services = [r \in ReqIds |-> Undef]
  /\ cache = [r \in ReqIds |-> << >>]
  /\ reads = [r \in ReqIds |-> << >>]
  /\ factoryCalls = [r \in ReqIds |-> << >>]
  /\ invocations = [r \in ReqIds |-> << >>]
  /\ casts = [r \in ReqIds |-> << >>]
  /\ outcome = [r \in ReqIds |-> NoOutcome]
  /\ caught = [r \in ReqIds |-> << >>]
  /\ res = [r \in ReqIds |-> << >>]
  /\ escaped = [r \in ReqIds |-> << >>]

\* One request, to any endpoint of the model.
Init ==
  \E sch \in SchemataChoices, fmt \in FormatterChoices, rq \in Requests :
    InitWith([schemata |-> sch, formatter |-> fmt], {1},
             [r \in ReqIds |-> rq])

(***************************************************************************)
(* getSchemataArgs: one category per step, each behind an await.           *)
(***************************************************************************)
\* A bug: value ?? {} for value || {}, only undefined and null give {}.
OrEmptyNullish(v) == IF v.t \in {"undefined", "null"} THEN EmptyObj ELSE v

\* value || {}
OrEmpty(v) == IF Truthy(v) THEN v ELSE EmptyObj

\* A bug: without a schema the raw value of the request is passed on.
ValidatedRaw(schema, raw) ==
  IF schema = NoSchema THEN [ok |-> TRUE, value |-> raw]
  ELSE validate(schema, raw)

\* await schemata.<cat>?.validate(req.<cat>): no schema yields undefined.
Validated(schema, raw) ==
  IF schema = NoSchema THEN [ok |-> TRUE, value |-> Undef]
  ELSE validate(schema, raw)

\* A bug: body is validated before query.
NextCategoryBodyFirst(cat) ==
  CASE cat = "params" -> "body"
    [] cat = "body" -> "query"
    [] cat = "query" -> ""

\* The category after cat, "" after the last.
NextCategory(cat) ==
  CASE cat = "params" -> "query"
    [] cat = "query" -> "body"
    [] cat = "body" -> ""

\* What getSchemataArgs returns when no category failed.
SchemaArgs(a) ==
  Obj([params |-> a.params, query |-> a.query, body |-> a.body])

ValidateCategory(r, cat) ==
  /\ pc[r] = cat
  /\ LET v == Validated(endpoint.schemata[cat], req[r][cat])
         a == [args[r] EXCEPT ![cat] = OrEmpty(v.value)]
     IN IF v.ok
        THEN /\ args' = [args EXCEPT ![r] = a]
             /\ IF NextCategory(cat) = ""
                THEN /\ schemataArgs' =
                          [schemataArgs EXCEPT ![r] = SchemaArgs(a)]
                     /\ pc' = [pc EXCEPT ![r] = "validated"]
                ELSE /\ pc' = [pc EXCEPT ![r] = NextCategory(cat)]
                     /\ UNCHANGED schemataArgs
        ELSE \* catch (e) { return paramError(e.message) }
             /\ schemataArgs' =
                  [schemataArgs EXCEPT ![r] = paramError(Str(v.message))]
             /\ pc' = [pc EXCEPT ![r] = "validated"]
             /\ UNCHANGED args
  /\ validations' =
       [validations EXCEPT ![r] =
          IF endpoint.schemata[cat] = NoSchema THEN @ ELSE Append(@, cat)]
  /\ UNCHANGED << endpoint, live, req, services, cache, reads, factoryCalls,
                  invocations, casts, outcome, caught, res, escaped >>

ValidateParams(r) == ValidateCategory(r, "params")
ValidateQuery(r) == ValidateCategory(r, "query")
ValidateBody(r) == ValidateCategory(r, "body")

(***************************************************************************)
(* The endpoint function after getSchemataArgs.                            *)
(***************************************************************************)
\* if (isYxpResults(schemataArgs)) { sendResults(res, schemataArgs); return }
SendParamError(r) ==
  /\ pc[r] = "validated"
  /\ isYxpResults(schemataArgs[r])
  /\ res' = [res EXCEPT ![r] = @ \o sendResults(schemataArgs[r])]
  /\ pc' = [pc EXCEPT ![r] = "sent"]
  /\ UNCHANGED << endpoint, live, req, args, schemataArgs, services, cache,
                  reads, factoryCalls, invocations, casts, outcome, caught,
                  escaped, validations >>

\* A bug: every context is built around the first request's handles.
ContextShared(r, sa) ==
  Obj(Put(Put(sa.o, "req", Handle("req", 1)), "res", Handle("res", 1)))

\* { ...schemataArgs, req, res }
Context(r, sa) ==
  Obj(Put(Put(sa.o, "req", Handle("req", r)), "res", Handle("res", r)))

\* A bug: the whole context is handed to the factory.
HttpArgsWhole(ctx) == ctx.o

\* pick(services, "req", "res")
HttpArgs(ctx) == [req |-> Get(ctx, "req"), res |-> Get(ctx, "res")]

\* addServices: one memoized getter per declared service, nothing computed.
AddServices(r) ==
  /\ pc[r] = "validated"
  /\ ~isYxpResults(schemataArgs[r])
  /\ services' = [services EXCEPT ![r] = Context(r, schemataArgs[r])]
  /\ cache' = [cache EXCEPT ![r] = << >>]
  /\ pc' = [pc EXCEPT ![r] = "invoke"]
  /\ UNCHANGED << endpoint, live, req, args, schemataArgs, reads,
                  factoryCalls, invocations, casts, outcome, caught, res,
                  escaped, validations >>

\* action(services): the action starts to run.
InvokeAction(r) ==
  /\ pc[r] = "invoke"
  /\ invocations' = [invocations EXCEPT ![r] = Append(@, services[r])]
  /\ pc' = [pc EXCEPT ![r] = "running"]
  /\ UNCHANGED << endpoint, live, req, args, schemataArgs, services, cache,
                  reads, factoryCalls, casts, outcome, caught, res, escaped,
                  validations >>

\* A bug: the getter is not memoized, nothing is cached.
MemoizedMutant(c, name, v) == c

\* memoize: what the cache holds once the factory has returned v for name.
Memoized(c, name, v) == Put(c, name, v)

\* memoize: whether the getter of name answers from its cache.
IsCached(c, name) == name \in DOMAIN c

\* The action reads a service whose getter has a cached value.
ReadCached(r, name) ==
  /\ pc[r] = "running"
  /\ Len(reads[r]) < MaxReads
  /\ IsCached(cache[r], name)
  /\ reads' = [reads EXCEPT ![r] = Append(@, name)]
  /\ UNCHANGED << endpoint, live, pc, req, args, schemataArgs, services,
                  cache, factoryCalls, invocations, casts, outcome, caught, res,
                  escaped, validations >>

FactoryCall(r, name, out) ==
  [name |-> name, httpArgs |-> HttpArgs(services[r]), out |-> out]

\* The action reads a service for the first time: the factory runs and
\* returns, and the value is cached.
ReadComputes(r, name, out) ==
  /\ pc[r] = "running"
  /\ Len(reads[r]) < MaxReads
  /\ ~IsCached(cache[r], name)
  /\ out.kind = "return"
  /\ reads' = [reads EXCEPT ![r] = Append(@, name)]
  /\ factoryCalls' =
       [factoryCalls EXCEPT ![r] = Append(@, FactoryCall(r, name, out))]
  /\ cache' = [cache EXCEPT ![r] = Memoized(@, name, out.v)]
  /\ UNCHANGED << endpoint, live, pc, req, args, schemataArgs, services,
                  invocations, casts, outcome, caught, res, escaped,
                  validations >>

\* A bug: the getter caches the value its factory threw.
MemoizedThrowCached(c, name, e) == Put(c, name, e)

\* memoize: what the cache holds once the factory has thrown e for name (the
\* throw leaves memoized before its cache.set).
MemoizedThrow(c, name, e) == c

\* The action reads a service and the factory throws: nothing is cached, and
\* the thrown value leaves the action unless the action catches it.
ReadThrows(r, name, out, catches) ==
  /\ pc[r] = "running"
  /\ Len(reads[r]) < MaxReads
  /\ ~IsCached(cache[r], name)
  /\ out.kind = "throw"
  /\ reads' = [reads EXCEPT ![r] = Append(@, name)]
  /\ factoryCalls' =
       [factoryCalls EXCEPT ![r] = Append(@, FactoryCall(r, name, out))]
  /\ IF catches
     THEN UNCHANGED << pc, outcome, caught >>
     ELSE /\ outcome' = [outcome EXCEPT ![r] =
                           [kind |-> "thrown", by |-> "factory", v |-> out.v]]
          /\ caught' = [caught EXCEPT ![r] = Append(@, out.v)]
          /\ pc' = [pc EXCEPT ![r] = "caught"]
  /\ cache' = [cache EXCEPT ![r] = MemoizedThrow(@, name, out.v)]
  /\ UNCHANGED << endpoint, live, req, args, schemataArgs, services,
                  invocations, casts, res, escaped, validations >>

\* The action returns v.
ActionReturns(r, v) ==
  /\ pc[r] = "running"
  /\ outcome' = [outcome EXCEPT ![r] = [kind |-> "returned", v |-> v]]
  /\ pc' = [pc EXCEPT ![r] = "returned"]
  /\ UNCHANGED << endpoint, live, req, args, schemataArgs, services, cache,
                  reads, factoryCalls, invocations, casts, caught, res,
                  escaped, validations >>

\* The action throws e.
ActionThrows(r, e) ==
  /\ pc[r] = "running"
  /\ outcome' = [outcome EXCEPT ![r] =
                   [kind |-> "thrown", by |-> "action", v |-> e]]
  /\ caught' = [caught EXCEPT ![r] = Append(@, e)]
  /\ pc' = [pc EXCEPT ![r] = "caught"]
  /\ UNCHANGED << endpoint, live, req, args, schemataArgs, services, cache,
                  reads, factoryCalls, invocations, casts, res, escaped,
                  validations >>

\* A bug: cast without stripUnknown.
StripUnknownMutant == FALSE

\* stripUnknown, of the options of formatter.cast in sendUnknownResponse.
StripUnknown == TRUE

\* sendUnknownResponse(res, results, formatter): a Result is sent as it is,
\* any other value is cast and sent as json; a TypeError of cast is thrown
\* inside the try. (\E binds c and sent to values computed once.)
SendUnknownResponse(r) ==
  /\ pc[r] = "returned"
  /\ \E c \in {cast(endpoint.formatter, outcome[r].v, StripUnknown)} :
       LET results == outcome[r].v
       IN IF isYxpResults(results)
          THEN IF sendResultsThrows(results)
               THEN /\ caught' =
                         [caught EXCEPT ![r] = Append(@, OptionsTypeError)]
                    /\ pc' = [pc EXCEPT ![r] = "caught"]
                    /\ UNCHANGED << casts, res >>
               ELSE /\ res' = [res EXCEPT ![r] = @ \o sendResults(results)]
                    /\ pc' = [pc EXCEPT ![r] = "sent"]
                    /\ UNCHANGED << casts, caught >>
          ELSE /\ casts' = [casts EXCEPT ![r] = Append(@, results)]
               /\ IF c.ok
                  THEN /\ \E sent \in {json(c.value, EmptyObj)} :
                            res' = [res EXCEPT ![r] = @ \o sendResults(sent)]
                       /\ pc' = [pc EXCEPT ![r] = "sent"]
                       /\ UNCHANGED caught
                  ELSE /\ caught' = [caught EXCEPT ![r] = Append(@, c.error)]
                       /\ pc' = [pc EXCEPT ![r] = "caught"]
                       /\ UNCHANGED res
  /\ UNCHANGED << endpoint, live, req, args, schemataArgs, services, cache,
                  reads, factoryCalls, invocations, outcome, escaped,
                  validations >>

\* catch (e) { if (isYxpResults(e)) sendResults(res, e); else throw e }: a
\* TypeError of sendResults leaves the catch clause.
Catch(r) ==
  /\ pc[r] = "caught"
  /\ LET e == caught[r][1]
     IN CASE isYxpResults(e) /\ ~sendResultsThrows(e) ->
               /\ res' = [res EXCEPT ![r] = @ \o sendResults(e)]
               /\ pc' = [pc EXCEPT ![r] = "sent"]
               /\ UNCHANGED escaped
          [] isYxpResults(e) /\ sendResultsThrows(e) ->
               /\ escaped' =
                    [escaped EXCEPT ![r] = Append(@, OptionsTypeError)]
               /\ pc' = [pc EXCEPT ![r] = "rejected"]
               /\ UNCHANGED res
          [] OTHER ->
               /\ escaped' = [escaped EXCEPT ![r] = Append(@, e)]
               /\ pc' = [pc EXCEPT ![r] = "rejected"]
               /\ UNCHANGED res
  /\ UNCHANGED << endpoint, live, req, args, schemataArgs, services, cache,
                  reads, factoryCalls, invocations, casts, outcome, caught,
                  validations >>

\* The values of the services read so far: an action may return one.
CachedValues(r) == {cache[r][n] : n \in DOMAIN cache[r]}

Next ==
  \/ \E r \in live : ValidateParams(r)
  \/ \E r \in live : ValidateQuery(r)
  \/ \E r \in live : ValidateBody(r)
  \/ \E r \in live : SendParamError(r)
  \/ \E r \in live : AddServices(r)
  \/ \E r \in live : InvokeAction(r)
  \/ \E r \in live, name \in ServiceNames : ReadCached(r, name)
  \/ \E r \in live, name \in ServiceNames :
       \E out \in FactoryOutcomes(name) : ReadComputes(r, name, out)
  \/ \E r \in live, name \in ServiceNames, catches \in BOOLEAN :
       \E out \in FactoryOutcomes(name) : ReadThrows(r, name, out, catches)
  \/ \E r \in live : \E v \in ReturnValues \cup CachedValues(r) :
       ActionReturns(r, v)
  \/ \E r \in live, e \in ThrowValues : ActionThrows(r, e)
  \/ \E r \in live : SendUnknownResponse(r)
  \/ \E r \in live : Catch(r)

Spec == Init /\ [][Next]_vars

\* A step of the endpoint function's call for request r.
Step(r) == Next /\ << pc[r], reads[r] >>' # << pc[r], reads[r] >>

\* The event loop resumes every call whose awaited validation has settled,
\* and the action, run synchronously, returns or throws.
FairSpec == Spec /\ \A r \in ReqIds : WF_vars(Step(r))

(***************************************************************************)
(* Actions that return or throw plain domain objects carrying a type       *)
(* field of their own, next to Results and untagged values.                *)
(***************************************************************************)
\* Domain objects with a type field, none built by a Result constructor.
TaggedValues ==
  { Obj([type |-> Str("YxpSuccess"), id |-> Num(3), username |-> Str("mary")]),
    Obj([type |-> Str("YxpError"), id |-> Num(3), username |-> Str("mary")]),
    Obj([type |-> Str("admin"), id |-> Num(3), username |-> Str("mary")]) }

NextTagged ==
  \/ \E r \in live : ValidateParams(r)
  \/ \E r \in live : ValidateQuery(r)
  \/ \E r \in live : ValidateBody(r)
  \/ \E r \in live : SendParamError(r)
  \/ \E r \in live : AddServices(r)
  \/ \E r \in live : InvokeAction(r)
  \/ \E r \in live, name \in ServiceNames : ReadCached(r, name)
  \/ \E r \in live, name \in ServiceNames :
       \E out \in FactoryOutcomes(name) : ReadComputes(r, name, out)
  \/ \E r \in live, name \in ServiceNames, catches \in BOOLEAN :
       \E out \in FactoryOutcomes(name) : ReadThrows(r, name, out, catches)
  \/ \E r \in live : \E v \in TaggedValues \cup ResultValues \cup {User} :
       ActionReturns(r, v)
  \/ \E r \in live : \E e \in TaggedValues \cup ThrowValues :
       ActionThrows(r, e)
  \/ \E r \in live : SendUnknownResponse(r)
  \/ \E r \in live : Catch(r)

SpecTagged == Init /\ [][NextTagged]_vars

(***************************************************************************)
(* Endpoints that declare a scalar shape for one category, and requests    *)
(* whose raw value in that category validates to a falsy or a non-falsy    *)
(* value, or does not validate.                                            *)
(***************************************************************************)
ScalarCases ==
  ( { [schema |-> NumberSchema(TRUE), raw |-> v] :
        v \in {Num(0), Num(3), Str("0"), Str("3"), Str("three")} }
    \cup { [schema |-> StringSchema(FALSE), raw |-> v] :
             v \in {Str(""), Str("mary")} }
    \cup { [schema |-> BooleanSchema(TRUE), raw |-> v] :
             v \in {Bool(FALSE), Bool(TRUE), Str("false")} }
    \cup { [schema |-> NullableSchema(NumberSchema(FALSE)), raw |-> v] :
             v \in {Null, Num(3)} } )

InitScalar ==
  \E cat \in Categories, c \in ScalarCases :
    InitWith([schemata |-> [k \in Categories |->
                             IF k = cat THEN c.schema ELSE NoSchema],
              formatter |-> BlankReturn],
             {1},
             [r \in ReqIds |->
                [k \in Categories |-> IF k = cat THEN c.raw ELSE Undef]])

SpecScalar == InitScalar /\ [][Next]_vars

(***************************************************************************)
(* Overlapping requests: the endpoint function is called for every request *)
(* id before any call has finished, and the calls interleave at their      *)
(* awaits. The endpoint declares a query shape and has one service, user,  *)
(* whose factory finds the user of the request's own session.              *)
(***************************************************************************)
\* The user the session of request r belongs to.
SessionUser(r) ==
  Obj([id |-> Num(r), username |-> Str("user" \o ToString(r))])

\* The demo's user factory on the request of r: the session's user, or a
\* structured Error when the session is not logged in.
SessionOutcomes(r) ==
  { [kind |-> "return", v |-> SessionUser(r)],
    [kind |-> "throw", v |-> yxpErrorNoBody(UNAUTHORIZED)] }

\* Request r asks for ?id=<r>; the last request may come without a query.
OverlappingRequests ==
  { reqOf \in [ReqIds -> [params : {Undef}, query : RawValues \cup
                            {Obj([id |-> Str(ToString(r))]) : r \in ReqIds},
                          body : {Undef}]] :
      \A r \in ReqIds :
        \/ reqOf[r].query = Obj([id |-> Str(ToString(r))])
        \/ r = MaxReqs /\ reqOf[r].query = Undef }

InitOverlapping ==
  \E reqOf \in OverlappingRequests :
    InitWith([schemata |-> [params |-> NoSchema, query |-> IdRequired,
                            body |-> NoSchema],
              formatter |-> UserResponse],
             ReqIds, reqOf)

NextOverlapping ==
  \/ \E r \in live : ValidateParams(r)
  \/ \E r \in live : ValidateQuery(r)
  \/ \E r \in live : ValidateBody(r)
  \/ \E r \in live : SendParamError(r)
  \/ \E r \in live : AddServices(r)
  \/ \E r \in live : InvokeAction(r)
  \/ \E r \in live : ReadCached(r, "user")
  \/ \E r \in live : \E out \in SessionOutcomes(r) :
       ReadComputes(r, "user", out)
  \/ \E r \in live, catches \in BOOLEAN : \E out \in SessionOutcomes(r) :
       ReadThrows(r, "user", out, catches)
  \/ \E r \in live : \E v \in {Undef} \cup CachedValues(r) :
       ActionReturns(r, v)
  \/ \E r \in live : ActionThrows(r, Fault("boom"))
  \/ \E r \in live : SendUnknownResponse(r)
  \/ \E r \in live : Catch(r)

SpecOverlapping == InitOverlapping /\ [][NextOverlapping]_vars

(***************************************************************************)
(* Shapes whose validate fails with something else than a ValidationError: *)
(* validate is called inside the try of getSchemataArgs, and whatever it   *)
(* throws or rejects with reaches catch (e) { return paramError(e.message) *)
(* }.                                                                      *)
(***************************************************************************)
\* What validate throws besides a ValidationError: an Error of a test, a
\* string, null (throw null), undefined (a Promise rejected with nothing).
ValidationFaults == {Fault("lookup failed"), Str("boom"), Null, Undef}

\* Whether e.message throws: null and undefined have no properties.
MessageThrows(e) == e.t \in {"undefined", "null"}

\* The TypeError of e.message for a null or undefined e.
MessageTypeError(e) ==
  Fault("Cannot read property 'message' of " \o e.t)

\* e.message for any other e: undefined where e has no such property.
MessageOf(e) ==
  CASE e.t = "error" -> Str(e.message)
    [] e.t = "object" -> Get(e, "message")
    [] OTHER -> Undef

\* validate of the shape declared for cat throws e: the catch clause returns
\* paramError(e.message), or e.message throws and the TypeError leaves
\* getSchemataArgs and, through the await, the endpoint function.
ValidateThrows(r, cat, e) ==
  /\ pc[r] = cat
  /\ endpoint.schemata[cat] # NoSchema
  /\ validations' = [validations EXCEPT ![r] = Append(@, cat)]
  /\ caught' = [caught EXCEPT ![r] = Append(@, e)]
  /\ IF MessageThrows(e)
     THEN /\ escaped' = [escaped EXCEPT ![r] = Append(@, MessageTypeError(e))]
          /\ pc' = [pc EXCEPT ![r] = "rejected"]
          /\ UNCHANGED schemataArgs
     ELSE /\ schemataArgs' =
               [schemataArgs EXCEPT ![r] = paramError(MessageOf(e))]
          /\ pc' = [pc EXCEPT ![r] = "validated"]
          /\ UNCHANGED escaped
  /\ UNCHANGED << endpoint, live, req, args, services, cache, reads,
                  factoryCalls, invocations, casts, outcome, res >>

NextThrowing ==
  \/ \E r \in live : ValidateParams(r)
  \/ \E r \in live : ValidateQuery(r)
  \/ \E r \in live : ValidateBody(r)
  \/ \E r \in live, cat \in Categories, e \in ValidationFaults :
       ValidateThrows(r, cat, e)
  \/ \E r \in live : SendParamError(r)
  \/ \E r \in live : AddServices(r)
  \/ \E r \in live : InvokeAction(r)
  \/ \E r \in live, name \in ServiceNames : ReadCached(r, name)
  \/ \E r \in live, name \in ServiceNames :
       \E out \in FactoryOutcomes(name) : ReadComputes(r, name, out)
  \/ \E r \in live, name \in ServiceNames, catches \in BOOLEAN :
       \E out \in FactoryOutcomes(name) : ReadThrows(r, name, out, catches)
  \/ \E r \in live : \E v \in ReturnValues \cup CachedValues(r) :
       ActionReturns(r, v)
  \/ \E r \in live, e \in ThrowValues : ActionThrows(r, e)
  \/ \E r \in live : SendUnknownResponse(r)
  \/ \E r \in live : Catch(r)

SpecThrowing == Init /\ [][NextThrowing]_vars


(***************************************************************************)
(* Reading the response and the request's history.                         *)
(***************************************************************************)
\* A structured Result, by the type YxpResults: a YxpSuccess or a YxpError.
StructuredResult(v) ==
  Get(v, "type") \in {Str("YxpSuccess"), Str("YxpError")}

StructuredSuccess(v) == Get(v, "type") = Str("YxpSuccess")

\* The calls of one method made on the response of request r.
Calls(r, op) == SelectSeq(res[r], LAMBDA c : c.op = op)

\* The response of r was written once: one status and one body.
WroteOnce(r) == Len(Calls(r, "status")) = 1 /\ Len(Calls(r, "send")) = 1

SentStatus(r) == Calls(r, "status")[1].code
SentBody(r) == Calls(r, "send")[1].body

\* The content types set on the response of r, by type() or as a header.
ContentTypes(r) ==
  { res[r][i].value :
      i \in { j \in 1 .. Len(res[r]) :
                \/ res[r][j].op = "type"
                \/ /\ res[r][j].op = "header"
                   /\ res[r][j].name = "Content-Type" } }

\* The calls of the factory of service name during request r.
CallsOf(r, name) == SelectSeq(factoryCalls[r], LAMBDA c : c.name = name)

\* How often the action of request r has read service name.
ReadCount(r, name) == Len(SelectSeq(reads[r], LAMBDA n : n = name))

\* JSON.parse on the bodies of the model: the object whose text it is.
JSONScalars ==
  { Num(1), Num(3), Str("michael"), Str("mary"), Str("swordfish") }

JSONObjects ==
  UNION { [ks -> JSONScalars] : ks \in SUBSET {"id", "username", "password"} }

JSONparse(txt) == CHOOSE o \in JSONObjects : JSONstringify(Obj(o)) = Str(txt)

\* The declared categories of the endpoint whose raw value request r
\* carries violates the shape.
Violating(r) ==
  { cat \in Categories :
      /\ endpoint.schemata[cat] # NoSchema
      /\ ~validate(endpoint.schemata[cat], req[r][cat]).ok }

\* The first of them in the order params, query, body.
FirstViolating(r) ==
  CASE "params" \in Violating(r) -> "params"
    [] "query" \in Violating(r) -> "query"
    [] OTHER -> "body"

(***************************************************************************)
(* C1: a request in which a declared category's raw value violates its     *)
(* shape is answered with status 400 and a non-empty body equal to the     *)
(* validation failure message; neither the action nor any service factory  *)
(* is invoked for it.                                                      *)
(***************************************************************************)
C1_InvalidInputIs400 ==
  \A r \in live :
    Violating(r) # {} =>
      /\ invocations[r] = << >>
      /\ factoryCalls[r] = << >>
      /\ pc[r] \in {"params", "query", "body", "validated", "sent"}
      /\ pc[r] = "sent" =>
           /\ WroteOnce(r)
           /\ SentStatus(r) = Num(400)
           /\ SentBody(r).t = "string"
           /\ SentBody(r).s # ""
           /\ SentBody(r).s =
                validate(endpoint.schemata[FirstViolating(r)],
                         req[r][FirstViolating(r)]).message

\* The test "fails if no id in the query": the query shape is declared, the
\* request has no query, and the response is sent.
C1_Witness ==
  /\ pc[1] = "sent"
  /\ endpoint.schemata.query = IdRequired
  /\ req[1].query = Undef
  /\ "params" \notin Violating(1)
  /\ SentBody(1) = Str("id is a required field")

(***************************************************************************)
(* C2: with a declared output shape, the body written for a plain          *)
(* (non-Result) return value, once JSON-decoded, has no field that the     *)
(* shape does not declare, and every declared field has the value the      *)
(* action returned.                                                        *)
(***************************************************************************)
C2_UndeclaredFieldsStripped ==
  \A r \in live :
    ( /\ pc[r] = "sent"
      /\ endpoint.formatter # BlankReturn
      /\ outcome[r].kind = "returned"
      /\ ~StructuredResult(outcome[r].v) ) =>
        /\ WroteOnce(r)
        /\ SentBody(r).t = "string"
        /\ LET decoded == JSONparse(SentBody(r).s)
           IN /\ DOMAIN decoded \subseteq DOMAIN endpoint.formatter.fields
              /\ \A k \in DOMAIN endpoint.formatter.fields :
                   Get(Obj(decoded), k) = Get(outcome[r].v, k)

\* The action returned the user with its password; the body has id and
\* username only.
C2_Witness ==
  /\ pc[1] = "sent"
  /\ endpoint.formatter = UserResponse
  /\ outcome[1] = [kind |-> "returned", v |-> User]
  /\ SentBody(1) = Str("{\"id\":1,\"username\":\"michael\"}")

(***************************************************************************)
(* C3, as the spec states it: the factory of a service is invoked zero     *)
(* times if the action never reads the service and exactly once if it      *)
(* reads it one or more times.                                             *)
(***************************************************************************)
C3_ExactlyOncePerRequest ==
  \A r \in live : \A name \in ServiceNames :
    Len(CallsOf(r, name)) = IF ReadCount(r, name) = 0 THEN 0 ELSE 1

(***************************************************************************)
(* C3, amended: the factory is not invoked if the action never reads the   *)
(* service; it is invoked on the first read, and again on a later read     *)
(* only while no invocation has returned (a throwing invocation caches     *)
(* nothing); after an invocation has returned it is never invoked again,   *)
(* and the cache holds the value it returned.                              *)
(***************************************************************************)
C3_OnceReturnedNeverRecomputed ==
  \A r \in live : \A name \in ServiceNames :
    LET cs == CallsOf(r, name)
    IN /\ ReadCount(r, name) = 0 => cs = << >>
       /\ ReadCount(r, name) >= 1 => Len(cs) >= 1
       /\ Len(cs) <= ReadCount(r, name)
       /\ \A i \in 1 .. Len(cs) : cs[i].out.kind = "return" => i = Len(cs)
       /\ IsCached(cache[r], name) <=>
            (cs # << >> /\ cs[Len(cs)].out.kind = "return")
       /\ IsCached(cache[r], name) => cache[r][name] = cs[Len(cs)].out.v
       /\ ( cs # << >> /\ cs[1].out.kind = "return" ) => Len(cs) = 1

\* The action read user twice and the factory ran once; baz was never read.
C3_Witness ==
  /\ reads[1] = << "user", "user" >>
  /\ Len(CallsOf(1, "user")) = 1
  /\ CallsOf(1, "baz") = << >>
  /\ pc[1] = "sent"


(***************************************************************************)
(* C4: for every category with a declared shape, when the raw value        *)
(* matches the shape the action receives in that category exactly the      *)
(* typed value the shape's validation produced.                            *)
(***************************************************************************)
C4_ActionReceivesTypedValue ==
  \A r \in live : \A cat \in Categories :
    ( /\ invocations[r] # << >>
      /\ endpoint.schemata[cat] # NoSchema ) =>
        Get(invocations[r][1], cat) =
          validate(endpoint.schemata[cat], req[r][cat]).value

(***************************************************************************)
(* C5: when the action, or a service factory the action reads, throws a    *)
(* structured Result, the response is written with exactly that Result's   *)
(* status code and body, formatter.cast is not called and nothing          *)
(* propagates to the caller.                                               *)
(***************************************************************************)
C5_ThrownResultIsTheResponse ==
  \A r \in live :
    ( /\ outcome[r].kind = "thrown"
      /\ outcome[r].by \in {"action", "factory"}
      /\ StructuredResult(outcome[r].v) ) =>
        /\ pc[r] \in {"caught", "sent"}
        /\ casts[r] = << >>
        /\ escaped[r] = << >>
        /\ pc[r] = "sent" =>
             /\ WroteOnce(r)
             /\ SentStatus(r) = outcome[r].v.o.statusCode
             /\ SentBody(r) = outcome[r].v.o.body

\* The user factory threw yxpError(UNAUTHORIZED) and the response is a 401.
C5_Witness ==
  /\ pc[1] = "sent"
  /\ outcome[1] = [kind |-> "thrown", by |-> "factory",
                   v |-> yxpErrorNoBody(UNAUTHORIZED)]
  /\ SentStatus(1) = Num(401)
  /\ SentBody(1) = Str("")

(***************************************************************************)
(* C6: when the action or a service factory throws a value that is not a   *)
(* structured Result, the endpoint function rejects with that same value   *)
(* and makes no call on the response.                                      *)
(***************************************************************************)
C6_FaultPropagates ==
  \A r \in live :
    ( /\ outcome[r].kind = "thrown"
      /\ outcome[r].by \in {"action", "factory"}
      /\ ~StructuredResult(outcome[r].v) ) =>
        /\ pc[r] \in {"caught", "rejected"}
        /\ res[r] = << >>
        /\ pc[r] = "rejected" => escaped[r] = << outcome[r].v >>

\* A factory threw an Error and the endpoint function rejected with it.
C6_Witness ==
  /\ pc[1] = "rejected"
  /\ outcome[1].kind = "thrown"
  /\ outcome[1].by = "factory"
  /\ escaped[1] = << Fault("store offline") >>

(***************************************************************************)
(* C7: when the action's outcome is deferred (a Promise), the response     *)
(* encodes what the Promise settles with: a Result it resolves to, or a    *)
(* structured Error it rejects with, is written with its status and body;  *)
(* a plain value or nothing it resolves to is cast through the output      *)
(* shape and written with status 200.                                      *)
(***************************************************************************)
C7_DeferredOutcomeEncoded ==
  \A r \in live :
    ( /\ pc[r] \in {"sent", "rejected"}
      /\ outcome[r].kind = "returned"
      /\ outcome[r].v.t = "promise" ) =>
        LET settled == outcome[r].v.v
        IN /\ pc[r] = "sent"
           /\ WroteOnce(r)
           /\ IF StructuredResult(settled)
              THEN /\ SentStatus(r) = settled.o.statusCode
                   /\ SentBody(r) = settled.o.body
              ELSE /\ SentStatus(r) = Num(200)
                   /\ SentBody(r) =
                        JSONstringify(CastValue(endpoint.formatter, settled,
                                                StripUnknown))

(***************************************************************************)
(* C8: for every Success the action returns, or plain value it returns,    *)
(* and that is written to the response, the content type of the response   *)
(* is set to the Success's MIME type, and to JSON for a plain value.       *)
(***************************************************************************)
DeclaredMimeType(v) ==
  IF StructuredSuccess(v) /\ Get(Get(v, "options"), "mimeType").t = "string"
  THEN Get(Get(v, "options"), "mimeType")
  ELSE Str("application/json")

C8_ContentTypeIsMimeType ==
  \A r \in live :
    ( /\ pc[r] = "sent"
      /\ outcome[r].kind = "returned"
      /\ ~StructuredResult(outcome[r].v) \/ StructuredSuccess(outcome[r].v) )
      =>
        ContentTypes(r) = { DeclaredMimeType(outcome[r].v) }

(***************************************************************************)
(* C9, as the spec states it: without an output shape a plain (non-Result) *)
(* return value is passed through unmodified, the body being the JSON      *)
(* encoding of the returned value with all of its fields.                  *)
(***************************************************************************)
C9_PlainValuePassedThrough ==
  \A r \in live :
    ( /\ pc[r] = "sent"
      /\ endpoint.formatter = BlankReturn
      /\ outcome[r].kind = "returned"
      /\ ~StructuredResult(outcome[r].v) ) =>
        SentBody(r) = JSONstringify(outcome[r].v)

(***************************************************************************)
(* C9, amended: without an output shape a plain object the action returns  *)
(* is cast through the empty shape BlankReturn, which strips every field:  *)
(* the response is written with status 200 and the body {}.                *)
(***************************************************************************)
C9_PlainObjectStrippedToEmpty ==
  \A r \in live :
    ( /\ pc[r] # "returned"
      /\ endpoint.formatter = BlankReturn
      /\ outcome[r].kind = "returned"
      /\ outcome[r].v.t = "object"
      /\ ~StructuredResult(outcome[r].v) ) =>
        /\ pc[r] = "sent"
        /\ WroteOnce(r)
        /\ SentStatus(r) = Num(200)
        /\ SentBody(r) = Str("{}")

\* The action returned the user and no output shape was declared.
C9_Witness ==
  /\ pc[1] = "sent"
  /\ endpoint.formatter = BlankReturn
  /\ outcome[1] = [kind |-> "returned", v |-> User]
  /\ SentBody(1) = Str("{}")

(***************************************************************************)
(* C10: without an output shape, when validation has succeeded and the     *)
(* action returns nothing, the response is written with status 200 and an  *)
(* empty body.                                                             *)
(***************************************************************************)
\* send(undefined) and send("") both end the response without content.
EmptyBody(b) == b = Undef \/ b = Str("")

C10_NothingReturnedIsEmpty200 ==
  \A r \in live :
    ( /\ pc[r] # "returned"
      /\ endpoint.formatter = BlankReturn
      /\ outcome[r] = [kind |-> "returned", v |-> Undef] ) =>
        /\ pc[r] = "sent"
        /\ WroteOnce(r)
        /\ SentStatus(r) = Num(200)
        /\ EmptyBody(SentBody(r))

\* The test "are provided": the action read services and returned nothing.
C10_Witness ==
  /\ pc[1] = "sent"
  /\ endpoint.formatter = BlankReturn
  /\ reads[1] # << >>
  /\ outcome[1] = [kind |-> "returned", v |-> Undef]
  /\ res[1] = << [op |-> "status", code |-> Num(200)],
                 [op |-> "send", body |-> Undef] >>

(***************************************************************************)
(* C11: when the action returns a structured Success, with a custom MIME   *)
(* type or not, formatter.cast is not called even though an output shape   *)
(* is declared: the response is written once, with exactly the Success's   *)
(* status code and body, whatever fields that body has.                    *)
(***************************************************************************)
C11_SuccessBypassesCasting ==
  \A r \in live :
    ( /\ pc[r] # "returned"
      /\ outcome[r].kind = "returned"
      /\ StructuredSuccess(outcome[r].v) ) =>
        /\ pc[r] = "sent"
        /\ casts[r] = << >>
        /\ WroteOnce(r)
        /\ SentStatus(r) = Get(outcome[r].v, "statusCode")
        /\ SentBody(r) = Get(outcome[r].v, "body")

\* UserResponse is declared and the action returned json(user): the body
\* carries the password the shape does not declare.
C11_Witness ==
  /\ pc[1] = "sent"
  /\ endpoint.formatter = UserResponse
  /\ outcome[1] = [kind |-> "returned", v |-> json(User, EmptyObj)]
  /\ casts[1] = << >>
  /\ SentBody(1) = JSONstringify(User)

(***************************************************************************)
(* C12: for every Success written to the response, each cookie and each    *)
(* header the Success declares in its options is set on the response, with *)
(* its declared value, before the body is written.                         *)
(***************************************************************************)
\* The cookies or headers a Result declares: name -> value.
Declared(v, which) ==
  LET m == Get(Get(v, "options"), which)
  IN IF m.t = "object" THEN m.o ELSE << >>

\* The position of the first call of op on the response of r, 0 if none.
FirstCall(r, op) ==
  IF \E i \in 1 .. Len(res[r]) : res[r][i].op = op
  THEN CHOOSE i \in 1 .. Len(res[r]) :
         /\ res[r][i].op = op
         /\ \A j \in 1 .. (i - 1) : res[r][j].op # op
  ELSE 0

\* Whether the response of r has call c before the body is written.
SetBeforeBody(r, c) ==
  \E i \in 1 .. Len(res[r]) : res[r][i] = c /\ i < FirstCall(r, "send")

C12_CookiesAndHeadersBeforeBody ==
  \A r \in live :
    ( /\ pc[r] = "sent"
      /\ outcome[r].kind \in {"returned", "thrown"}
      /\ StructuredSuccess(outcome[r].v) ) =>
        LET cookies == Declared(outcome[r].v, "cookies")
            headers == Declared(outcome[r].v, "headers")
        IN /\ WroteOnce(r)
           /\ \A k \in DOMAIN cookies :
                SetBeforeBody(r, [op |-> "cookie", name |-> k,
                                  value |-> cookies[k]])
           /\ \A k \in DOMAIN headers :
                SetBeforeBody(r, [op |-> "header", name |-> k,
                                  value |-> headers[k]])

\* The demo's /api/login: the action returned json({}, { cookies: { USERID } })
\* and the cookie was set before the body was sent.
C12_Witness ==
  /\ pc[1] = "sent"
  /\ outcome[1].kind = "returned"
  /\ Declared(outcome[1].v, "cookies") = [USERID |-> Str("1")]
  /\ res[1][1] = [op |-> "cookie", name |-> "USERID", value |-> Str("1")]
  /\ res[1][Len(res[1])] = [op |-> "send", body |-> Str("{}")]

(***************************************************************************)
(* C13: within one request the declared categories are validated one after *)
(* the other in the order params, query, body; when a category fails, no   *)
(* category after it is validated, and one Error Result, with status 400   *)
(* and the failing category's message as its body, is produced and sent.   *)
(***************************************************************************)
CategoryOrder == << "params", "query", "body" >>

\* The categories the endpoint declares a shape for, in validation order.
DeclaredInOrder ==
  SelectSeq(CategoryOrder, LAMBDA cat : endpoint.schemata[cat] # NoSchema)

IsPrefix(s, t) == Len(s) <= Len(t) /\ SubSeq(t, 1, Len(s)) = s

\* The position of cat in the validation order.
Position(cat) == CHOOSE i \in 1 .. 3 : CategoryOrder[i] = cat

C13_SequentialShortCircuit ==
  \A r \in live :
    /\ IsPrefix(validations[r], DeclaredInOrder)
    /\ pc[r] \notin {"params", "query", "body"} /\ Violating(r) = {}
         => validations[r] = DeclaredInOrder
    /\ Violating(r) # {} =>
         LET failing == FirstViolating(r)
             message == validate(endpoint.schemata[failing],
                                 req[r][failing]).message
         IN /\ \A i \in 1 .. Len(validations[r]) :
                 Position(validations[r][i]) <= Position(failing)
            /\ pc[r] \in {"validated", "sent"} =>
                 /\ validations[r][Len(validations[r])] = failing
                 /\ Get(schemataArgs[r], "type") = Str("YxpError")
                 /\ Get(schemataArgs[r], "statusCode") = Num(400)
                 /\ Get(schemataArgs[r], "body") = Str(message)
            /\ pc[r] = "sent" =>
                 res[r] = << [op |-> "status", code |-> Num(400)],
                            [op |-> "send", body |-> Str(message)] >>

\* All three categories are declared, params is valid and query is not:
\* body was never validated.
C13_Witness ==
  /\ pc[1] = "sent"
  /\ DeclaredInOrder = CategoryOrder
  /\ FirstViolating(1) = "query"
  /\ "body" \in Violating(1)
  /\ validations[1] = << "params", "query" >>
  /\ SentStatus(1) = Num(400)

(***************************************************************************)
(* C14, as the spec states it: the writes to the response are made in the  *)
(* order status code first, then (for a Success) the declared cookies and  *)
(* headers, then the body.                                                 *)
(***************************************************************************)
C14_StatusFirst ==
  \A r \in live :
    pc[r] = "sent" =>
      LET n == Len(res[r])
      IN /\ n >= 2
         /\ res[r][1].op = "status"
         /\ res[r][n].op = "send"
         /\ \A i \in 2 .. (n - 1) : res[r][i].op \in {"cookie", "header"}

(***************************************************************************)
(* C14, amended: the writes to the response are made in the order: for a   *)
(* Success its declared cookies, then its declared headers; then the       *)
(* status code; then, last, the body. For an Error the writes are the      *)
(* status code and the body only.                                          *)
(***************************************************************************)
C14_CookiesHeadersStatusBody ==
  \A r \in live :
    pc[r] = "sent" =>
      LET n == Len(res[r])
      IN /\ n >= 2
         /\ res[r][n].op = "send"
         /\ res[r][n - 1].op = "status"
         /\ \A i \in 1 .. (n - 2) : res[r][i].op \in {"cookie", "header"}
         /\ \A i, j \in 1 .. (n - 2) :
              (res[r][i].op = "cookie" /\ res[r][j].op = "header") => i < j
         /\ n > 2 =>
              /\ outcome[r].kind \in {"returned", "thrown"}
              /\ StructuredSuccess(outcome[r].v)

\* A Success with a cookie and a header: cookie, header, status, body.
C14_Witness ==
  /\ pc[1] = "sent"
  /\ outcome[1].kind = "returned"
  /\ StructuredSuccess(outcome[1].v)
  /\ res[1] = << [op |-> "cookie", name |-> "USERID", value |-> Str("1")],
                 [op |-> "header", name |-> "Location",
                  value |-> Str("/home")],
                 [op |-> "status", code |-> Num(200)],
                 [op |-> "send", body |-> Str("<p>hello</p>")] >>

(***************************************************************************)
(* C15: every request eventually ends, either with an unstructured fault   *)
(* propagating to the caller or in the terminal state sent, having written *)
(* one response (one status, one body); the action is invoked at most      *)
(* once, every step moves the request forward in the lifecycle (no         *)
(* position is entered a second time), and nothing is written or invoked   *)
(* after the end.                                                          *)
(***************************************************************************)
\* The positions of the endpoint function's call, in the order of the code.
LifecycleOrder ==
  << "idle", "params", "query", "body", "validated", "invoke", "running",
     "returned", "caught", "rejected", "sent" >>

Rank(p) == CHOOSE i \in 1 .. Len(LifecycleOrder) : LifecycleOrder[i] = p

Terminal(r) == pc[r] \in {"sent", "rejected"}

C15_OneResponse ==
  \A r \in live :
    /\ Len(invocations[r]) <= 1
    /\ Len(Calls(r, "status")) <= 1
    /\ Len(Calls(r, "send")) <= 1
    /\ pc[r] = "sent" => WroteOnce(r) /\ escaped[r] = << >>
    /\ pc[r] # "sent" => res[r] = << >>
    /\ pc[r] = "rejected" =>
         /\ Len(escaped[r]) = 1
         /\ ~StructuredResult(escaped[r][1])

C15_NoReentry ==
  \A r \in live :
    /\ pc'[r] # pc[r] => Rank(pc'[r]) > Rank(pc[r])
    /\ Terminal(r) => UNCHANGED << pc[r], res[r], invocations[r] >>

C15_ReachesSentOnce ==
  /\ []C15_OneResponse
  /\ [][C15_NoReentry]_vars
  /\ <>[](\A r \in live : Terminal(r))

\* The action ran once and the one response was written.
C15_Witness ==
  /\ pc[1] = "sent"
  /\ Len(invocations[1]) = 1
  /\ reads[1] # << >>
  /\ WroteOnce(1)

(***************************************************************************)
(* C16: with overlapping requests interleaved at the awaits, every request *)
(* has its own context and service cache: the action of a request is       *)
(* invoked with that request's handles and validated inputs; every factory *)
(* call made for a request gets that request's own request/response pair;  *)
(* a service read in two requests has its factory invoked in each of them  *)
(* (once when it returns), and the value a request has cached is the one   *)
(* its own factory call returned, never the value of another request.      *)
(***************************************************************************)
\* The calls of name's factory during request r that returned.
Returned(r, name) ==
  SelectSeq(CallsOf(r, name), LAMBDA c : c.out.kind = "return")

C16_RequestsIsolated ==
  \A r \in live :
    /\ invocations[r] # << >> =>
         /\ Get(invocations[r][1], "req") = Handle("req", r)
         /\ Get(invocations[r][1], "res") = Handle("res", r)
         /\ \A cat \in Categories :
              endpoint.schemata[cat] # NoSchema =>
                Get(invocations[r][1], cat) =
                  validate(endpoint.schemata[cat], req[r][cat]).value
    /\ \A i \in 1 .. Len(factoryCalls[r]) :
         factoryCalls[r][i].httpArgs =
           [req |-> Handle("req", r), res |-> Handle("res", r)]
    /\ \A name \in ServiceNames :
         /\ Len(Returned(r, name)) <= 1
         /\ IsCached(cache[r], name) <=> Len(Returned(r, name)) = 1
         /\ IsCached(cache[r], name) =>
              /\ cache[r][name] = Returned(r, name)[1].out.v
              /\ cache[r][name] = SessionUser(r)
              /\ \A other \in live \ {r} :
                   cache[r][name] # SessionUser(other)
    /\ ( outcome[r].kind = "returned" /\ outcome[r].v # Undef ) =>
         outcome[r].v = SessionUser(r)

\* Two requests overlap: both actions are running, each has read user, and
\* each factory call got its own request's handles and found its own user.
C16_Witness ==
  /\ pc[1] = "running"
  /\ pc[2] = "running"
  /\ Len(Returned(1, "user")) = 1
  /\ Len(Returned(2, "user")) = 1
  /\ cache[1]["user"] = SessionUser(1)
  /\ cache[2]["user"] = SessionUser(2)
  /\ Get(invocations[1][1], "query") = Obj([id |-> Num(1)])
  /\ Get(invocations[2][1], "query") = Obj([id |-> Num(2)])

(***************************************************************************)
(* C17: every call of a service factory receives the request/response     *)
(* pair of the request being handled, the very handles the endpoint        *)
(* function was called with, and nothing else: no validated params, query  *)
(* or body.                                                                *)
(***************************************************************************)
C17_FactoryGetsHttpArgsOnly ==
  \A r \in live :
    \A i \in 1 .. Len(factoryCalls[r]) :
      LET httpArgs == factoryCalls[r][i].httpArgs
      IN /\ DOMAIN httpArgs = {"req", "res"}
         /\ httpArgs.req = Handle("req", r)
         /\ httpArgs.res = Handle("res", r)
         /\ \A cat \in Categories : cat \notin DOMAIN httpArgs

\* The action was given a validated params value and read a service: the
\* factory got the pair only.
C17_Witness ==
  /\ factoryCalls[1] # << >>
  /\ Get(invocations[1][1], "params") = Obj([id |-> Num(3)])
  /\ factoryCalls[1][1].httpArgs =
       [req |-> Handle("req", 1), res |-> Handle("res", 1)]

(***************************************************************************)
(* C18: for every category (params, query, body) the endpoint declares no  *)
(* shape for, no validation is made of that category and the action        *)
(* receives the empty object for it, with none of the fields the raw       *)
(* request carries in that category, whatever the request contains.        *)
(***************************************************************************)
C18_UndeclaredCategoryIsEmpty ==
  \A r \in live : \A cat \in Categories :
    endpoint.schemata[cat] = NoSchema =>
      /\ \A i \in 1 .. Len(validations[r]) : validations[r][i] # cat
      /\ invocations[r] # << >> =>
           /\ Get(invocations[r][1], cat) = EmptyObj
           /\ Keys(Get(invocations[r][1], cat).o) = << >>

\* No params shape is declared, the request carries params { id: "3" }, and
\* the action received params {}.
C18_Witness ==
  /\ endpoint.schemata.params = NoSchema
  /\ req[1].params = Obj([id |-> Str("3")])
  /\ invocations[1] # << >>
  /\ Get(invocations[1][1], "params") = EmptyObj

(***************************************************************************)
(* C19: classification depends on the type field only. A value the action  *)
(* returns or throws whose type field is "YxpSuccess" or "YxpError" is     *)
(* written to the response verbatim as a structured Result, formatter.cast *)
(* not being called, even when it is a plain domain object no Result       *)
(* constructor built; every other returned value is cast through the       *)
(* output shape, and every other thrown value is rethrown.                 *)
(***************************************************************************)
\* The value's type field is one of the two Result tags.
Tagged(v) == Get(v, "type") \in {Str("YxpSuccess"), Str("YxpError")}

C19_ClassifiedByTypeTag ==
  \A r \in live :
    ( /\ Terminal(r)
      /\ outcome[r].kind \in {"returned", "thrown"}
      /\ outcome[r].kind = "thrown" => outcome[r].by = "action" ) =>
        LET v == outcome[r].v
        IN IF Tagged(v)
           THEN /\ pc[r] = "sent"
                /\ casts[r] = << >>
                /\ escaped[r] = << >>
                /\ WroteOnce(r)
                /\ SentStatus(r) = Get(v, "statusCode")
                /\ SentBody(r) = Get(v, "body")
           ELSE IF outcome[r].kind = "returned"
           THEN casts[r] = << v >>
           ELSE /\ pc[r] = "rejected"
                /\ escaped[r] = << v >>
                /\ res[r] = << >>

(***************************************************************************)
(* C20: when the validation of a declared category succeeds with a falsy   *)
(* typed value (0, the empty string, false or null), the action receives   *)
(* the empty object for that category instead of the validated value; for  *)
(* every other validated value the action receives that value unchanged.   *)
(***************************************************************************)
FalsyTyped(v) == v \in {Num(0), Str(""), Bool(FALSE), Null}

Threw(r, name) ==
  SelectSeq(CallsOf(r, name), LAMBDA c : c.out.kind = "throw")

C21_ThrowingCallCachesNothing ==
  \A r \in live : \A name \in ServiceNames :
    /\ Returned(r, name) = << >> =>
         /\ ~IsCached(cache[r], name)
         /\ Len(CallsOf(r, name)) = ReadCount(r, name)
    /\ Returned(r, name) # << >> => IsCached(cache[r], name)
    /\ IsCached(cache[r], name) =>
         /\ Len(Returned(r, name)) = 1
         /\ cache[r][name] = Returned(r, name)[1].out.v
         /\ \A i \in 1 .. Len(Threw(r, name)) :
              cache[r][name] # Threw(r, name)[i].out.v

\* The action caught what the first call of user's factory threw and read
\* user again: the factory ran a second time, and what it returned then is
\* the cache entry.
C21_Witness ==
  /\ reads[1] = << "user", "user" >>
  /\ Len(CallsOf(1, "user")) = 2
  /\ CallsOf(1, "user")[1].out.kind = "throw"
  /\ CallsOf(1, "user")[2].out.kind = "return"
  /\ cache[1] = [n \in {"user"} |-> User]
  /\ pc[1] = "running"


(***************************************************************************)
(* C22: every value thrown while params, query or body is validated, a     *)
(* ValidationError or any other fault of a shape's validate, becomes an    *)
(* Error Result with status 400 whose body is the thrown value's message   *)
(* (empty for a value that carries none); nothing thrown while validating  *)
(* leaves the endpoint function, and the action is not invoked.            *)
(***************************************************************************)
\* What validate threw during request r that was no ValidationError: the
\* values caught before the try around the action was entered.
ThrownValidating(r) == IF services[r] = Undef THEN caught[r] ELSE << >>

\* The message a thrown value carries, "" when it carries none.
Message(e) ==
  CASE e.t = "error" -> Str(e.message)
    [] e.t = "object" /\ "message" \in DOMAIN e.o -> e.o["message"]
    [] OTHER -> Str("")

\* The ValidationError of the last category validated for r, if it failed.
LastValidation(r) ==
  LET cat == validations[r][Len(validations[r])]
  IN validate(endpoint.schemata[cat], req[r][cat])

\* Request r ends or has ended in the 400 Error Result with body m.
Becomes400(r, m) ==
  /\ escaped[r] = << >>
  /\ invocations[r] = << >>
  /\ pc[r] \in {"validated", "sent"}
  /\ schemataArgs[r] = yxpError(BAD_REQUEST, m)
  /\ pc[r] = "sent" =>
       /\ WroteOnce(r)
       /\ SentStatus(r) = Num(BAD_REQUEST)
       /\ SentBody(r) = m

C22_EveryThrownValueBecomes400 ==
  \A r \in live :
    /\ ThrownValidating(r) # << >> =>
         Becomes400(r, Message(ThrownValidating(r)[1]))
    /\ ( /\ ThrownValidating(r) = << >>
         /\ validations[r] # << >>
         /\ pc[r] \notin Categories
         /\ ~LastValidation(r).ok ) =>
         Becomes400(r, Str(LastValidation(r).message))

=============================================================================
